---- MODULE Spec2Model ----
(***************************************************************************)
(* Model of the auction ledger of Cricket_Auction.py: the SQLite tables    *)
(* players, teams and auction_history, the AuctionManager operations        *)
(* add_team, add_player and process_bid, and the connections through which  *)
(* concurrent callers run process_bid.                                      *)
(*                                                                          *)
(* A connection made by sqlite3.connect() runs in the module's default      *)
(* deferred-transaction mode: a SELECT runs outside any transaction, the    *)
(* first UPDATE/INSERT opens one (taking the database's single write        *)
(* lock), and leaving the `with` block commits it.  Other connections read  *)
(* only committed rows.                                                     *)
(***************************************************************************)
EXTENDS Integers, Sequences, FiniteSets, TLC

\* ---------------------------------------------------------------- bounds
MaxPlayers   == 2    \* rows add_player may insert
MaxBudget    == 1    \* largest budget add_team is called with
MaxBasePrice == 1    \* largest base price add_player is called with
MaxBid       == 1    \* largest bid_amount process_bid is called with
MaxHistory   == 2    \* sales that may be committed or in progress

TeamNames == {"Falcons", "Hawks"}

\* Slots for the connections open at the same time.  get_connection() makes
\* a fresh connection per call, so a new call takes the lowest free slot.
Conns == {1, 2}

\* Browser sessions on the auction page.  The process_bid call of session s
\* runs on connection slot s.
Sessions == {1, 2}

Budgets    == 0..MaxBudget
BasePrices == 1..MaxBasePrice
\* process_bid does not restrict its bid_amount argument: a negative one too
Bids       == (0 - 1)..MaxBid
PlayerIds  == 1..MaxPlayers

\* SQL NULL, and a non-null column value
NULL    == <<>>
Some(x) == <<x>>

VARIABLES
    players,          \* committed rows of table players (lines 34-47), by id
    teams,            \* committed rows of table teams (lines 50-58), by id
    auction_history,  \* committed rows of auction_history (61-71), in id order
    original_budget,  \* per team id: the budget add_team inserted (104-107)
    reg_result,       \* how the last add_team call ended (108-112)
    pc,               \* per connection: position inside process_bid (131-161)
    args,             \* per connection: (player_id, team_name, bid_amount) of
                      \* the call in progress or of the call just rejected
    team_id,          \* per connection: team_data[0] of the SELECT (141)
    result,           \* per connection: how its last call ended
    writer,           \* connection holding the database write lock, 0 if none
    tx,               \* uncommitted working copy of the open transaction
    current_player    \* per browser session: id of the player held in
                      \* st.session_state.current_player, 0 for None (353-371)

vars == <<players, teams, auction_history, original_budget, reg_result,
          pc, args, team_id, result, writer, tx, current_player>>

NoArgs == [player_id |-> 0, team_name |-> "", bid_amount |-> 0]
NoTx   == [players |-> <<>>, teams |-> <<>>, auction_history |-> <<>>]

\* ------------------------------------------------------------- helpers
\* SELECT id FROM teams WHERE name = n  (name is UNIQUE: at most one row)
TeamRows(ts, n) == {i \in DOMAIN ts : ts[i].name = n}

TeamIdOf(ts, n) == CHOOSE i \in TeamRows(ts, n) : TRUE

RECURSIVE SumSoldPrice(_, _)
\* SELECT SUM(sold_price) FROM players WHERE sold_to = n   (`or 0`)
SumSoldPrice(ps, n) ==
    IF ps = <<>> THEN 0
    ELSE LET p == ps[Len(ps)]
             rest == SumSoldPrice(SubSeq(ps, 1, Len(ps) - 1), n)
         IN IF p.sold_to = Some(n) /\ p.sold_price # NULL
            THEN rest + p.sold_price[1]
            ELSE rest

\* Variant of UnsoldPool whose SELECT has no WHERE clause.
EveryPlayer(ps) == DOMAIN ps

\* lines 359-363 (and 180-181, 462): the ids of
\* SELECT ... FROM players WHERE sold_to IS NULL AND sold_price IS NULL
UnsoldPool(ps) ==
    {p \in DOMAIN ps : ps[p].sold_to = NULL /\ ps[p].sold_price = NULL}

\* lines 358-371: ORDER BY RANDOM() LIMIT 1 gives any one row of the pool,
\* and an empty result leaves current_player None (0)
RandomPlayer(ps) == IF UnsoldPool(ps) = {} THEN {0} ELSE UnsoldPool(ps)

\* Variant of InsufficientBudget that only looks for the team's row.
InsufficientBudgetUnchecked(ts, team_name, bid_amount) ==
    TeamRows(ts, team_name) = {}

\* Variant of InsufficientBudget that compares with <= in place of <.
InsufficientBudgetOrEqual(ts, team_name, bid_amount) ==
    IF TeamRows(ts, team_name) = {}
    THEN TRUE
    ELSE ts[TeamIdOf(ts, team_name)].budget <= bid_amount

\* line 138: `not team_data or team_data[1] < bid_amount`
InsufficientBudget(ts, team_name, bid_amount) ==
    IF TeamRows(ts, team_name) = {}
    THEN TRUE
    ELSE ts[TeamIdOf(ts, team_name)].budget < bid_amount

\* Variant of SetSold whose UPDATE sets the buyer only.
SetSoldToOnly(ps, player_id, team_name, bid_amount) ==
    IF player_id \in DOMAIN ps
    THEN [ps EXCEPT ![player_id].sold_to = Some(team_name)]
    ELSE ps

\* lines 144-147: UPDATE players SET sold_to = ?, sold_price = ? WHERE id = ?
\* (an id matching no row updates nothing)
SetSold(ps, player_id, team_name, bid_amount) ==
    IF player_id \in DOMAIN ps
    THEN [ps EXCEPT ![player_id].sold_to = Some(team_name),
                    ![player_id].sold_price = Some(bid_amount)]
    ELSE ps

\* Variant of DecrementBudget without the WHERE clause.
DecrementEveryBudget(ts, tid, bid_amount) ==
    [i \in DOMAIN ts |-> [ts[i] EXCEPT !.budget = @ - bid_amount]]

\* lines 150-153: UPDATE teams SET budget = budget - ? WHERE id = ?
DecrementBudget(ts, tid, bid_amount) ==
    [ts EXCEPT ![tid].budget = @ - bid_amount]

\* Variant of RecordHistory that writes the new row in front of the others.
RecordHistoryFirst(h, player_id, tid, bid_amount) ==
    <<[player_id |-> player_id, team_id |-> tid,
       bid_amount |-> bid_amount]>> \o h

\* lines 156-159: INSERT INTO auction_history (player_id, team_id, bid_amount)
RecordHistory(h, player_id, tid, bid_amount) ==
    Append(h, [player_id |-> player_id, team_id |-> tid,
               bid_amount |-> bid_amount])

\* calls that have passed the budget check and have not finished
InFlight == {c \in Conns : pc[c] \in {"checked", "updated_player",
                                      "updated_team", "inserted"}}

\* ------------------------------------------------------------- initial
Init ==
    /\ players = <<>>
    /\ teams = <<>>
    /\ auction_history = <<>>
    /\ original_budget = <<>>
    /\ reg_result = "none"
    /\ pc = [c \in Conns |-> "idle"]
    /\ args = [c \in Conns |-> NoArgs]
    /\ team_id = [c \in Conns |-> 0]
    /\ result = [c \in Conns |-> "none"]
    /\ writer = 0
    /\ tx = NoTx
    /\ current_player = [s \in Sessions |-> 0]

\* ------------------------------------------------------------- actions
\* Variant of add_team on a teams table whose name column is not UNIQUE.
AddTeamAnyName(name, budget) ==
    /\ writer = 0
    /\ teams' = Append(teams, [name |-> name, budget |-> budget])
    /\ original_budget' = Append(original_budget, budget)
    /\ reg_result' = "True"
    /\ UNCHANGED <<players, auction_history, pc, args, team_id, result,
                   writer, tx, current_player>>

\* AuctionManager.add_team: one INSERT, committed on leaving the with block;
\* the UNIQUE constraint on name raises IntegrityError -> ValueError.
add_team(name, budget) ==
    /\ writer = 0
    /\ IF TeamRows(teams, name) # {}
       THEN /\ reg_result' = "Team name already exists"
            /\ UNCHANGED <<teams, original_budget>>
       ELSE /\ teams' = Append(teams, [name |-> name, budget |-> budget])
            /\ original_budget' = Append(original_budget, budget)
            /\ reg_result' = "True"
    /\ UNCHANGED <<players, auction_history, pc, args, team_id, result,
                   writer, tx, current_player>>

\* AuctionManager.add_player: one INSERT; sold_to and sold_price default NULL.
add_player(base_price) ==
    /\ writer = 0
    /\ Len(players) < MaxPlayers
    /\ players' = Append(players, [base_price |-> base_price,
                                   sold_to |-> NULL, sold_price |-> NULL])
    /\ UNCHANGED <<teams, auction_history, original_budget, reg_result,
                   pc, args, team_id, result, writer, tx,
                   current_player>>

\* process_bid, lines 135-141: SELECT id, budget ... ; the budget check.
BudgetCheck(c, player_id, team_name, bid_amount) ==
    /\ pc[c] = "idle"
    /\ IF InsufficientBudget(teams, team_name, bid_amount)
       THEN TRUE
       ELSE Len(auction_history) + Cardinality(InFlight) < MaxHistory
    /\ args' = [args EXCEPT ![c] = [player_id |-> player_id,
                                    team_name |-> team_name,
                                    bid_amount |-> bid_amount]]
    /\ IF InsufficientBudget(teams, team_name, bid_amount)
       THEN /\ result' = [result EXCEPT ![c] = "Insufficient budget"]
            /\ UNCHANGED <<pc, team_id>>
       ELSE /\ pc' = [pc EXCEPT ![c] = "checked"]
            /\ team_id' = [team_id EXCEPT ![c] = TeamIdOf(teams, team_name)]
            /\ result' = [result EXCEPT ![c] = "none"]
    /\ UNCHANGED <<players, teams, auction_history, original_budget,
                   reg_result, writer, tx, current_player>>

\* A call by a caller that is no browser session: it takes the lowest free
\* connection slot.
CheckBudget(c, player_id, team_name, bid_amount) ==
    /\ \A d \in Conns : d < c => pc[d] # "idle"
    /\ BudgetCheck(c, player_id, team_name, bid_amount)

\* Variant of UpdatePlayer on a connection in autocommit mode: the UPDATE
\* of the player is committed at once.
UpdatePlayerAutocommit(c) ==
    /\ pc[c] = "checked"
    /\ writer = 0
    /\ writer' = c
    /\ players' = SetSold(players, args[c].player_id,
                          args[c].team_name, args[c].bid_amount)
    /\ tx' = [players |-> players',
              teams |-> teams,
              auction_history |-> auction_history]
    /\ pc' = [pc EXCEPT ![c] = "updated_player"]
    /\ UNCHANGED <<teams, auction_history, original_budget,
                   reg_result, args, team_id, result, current_player>>

\* process_bid, lines 143-147: the first UPDATE opens the transaction
\* (takes the write lock) and sets the player's sale fields in it.
\* An id matching no row updates nothing.
UpdatePlayer(c) ==
    /\ pc[c] = "checked"
    /\ writer = 0
    /\ writer' = c
    /\ tx' = [players |-> SetSold(players, args[c].player_id,
                                   args[c].team_name, args[c].bid_amount),
              teams |-> teams,
              auction_history |-> auction_history]
    /\ pc' = [pc EXCEPT ![c] = "updated_player"]
    /\ UNCHANGED <<players, teams, auction_history, original_budget,
                   reg_result, args, team_id, result, current_player>>

\* process_bid, lines 149-153: UPDATE teams SET budget = budget - ?
UpdateTeam(c) ==
    /\ pc[c] = "updated_player"
    /\ writer = c
    /\ tx' = [tx EXCEPT !.teams =
                DecrementBudget(@, team_id[c], args[c].bid_amount)]
    /\ pc' = [pc EXCEPT ![c] = "updated_team"]
    /\ UNCHANGED <<players, teams, auction_history, original_budget,
                   reg_result, args, team_id, result, writer,
                   current_player>>

\* process_bid, lines 155-159: INSERT INTO auction_history
InsertHistory(c) ==
    /\ pc[c] = "updated_team"
    /\ writer = c
    /\ tx' = [tx EXCEPT !.auction_history =
                RecordHistory(@, args[c].player_id, team_id[c],
                              args[c].bid_amount)]
    /\ pc' = [pc EXCEPT ![c] = "inserted"]
    /\ UNCHANGED <<players, teams, auction_history, original_budget,
                   reg_result, args, team_id, result, writer,
                   current_player>>

\* Variant of CommitSale that commits and never returns to its caller.
CommitSaleNoReturn(c) ==
    /\ pc[c] = "inserted"
    /\ writer = c
    /\ players' = tx.players
    /\ teams' = tx.teams
    /\ auction_history' = tx.auction_history
    /\ tx' = NoTx
    /\ writer' = 0
    /\ UNCHANGED <<pc, result, args, team_id, original_budget, reg_result>>

\* process_bid, line 161 and the exit of the with block: COMMIT, return True.
CommitSale(c) ==
    /\ pc[c] = "inserted"
    /\ writer = c
    /\ players' = tx.players
    /\ teams' = tx.teams
    /\ auction_history' = tx.auction_history
    /\ tx' = NoTx
    /\ writer' = 0
    /\ pc' = [pc EXCEPT ![c] = "idle"]
    /\ result' = [result EXCEPT ![c] = "True"]
    /\ args' = [args EXCEPT ![c] = NoArgs]
    /\ team_id' = [team_id EXCEPT ![c] = 0]
    /\ UNCHANGED <<original_budget, reg_result>>

\* The return of a call by a caller that is no browser session.
Commit(c) ==
    /\ CommitSale(c)
    /\ UNCHANGED current_player

\* The first UPDATE of a connection while another one holds the write lock:
\* sqlite3 gives up after its busy timeout with OperationalError.
Busy(c) ==
    /\ pc[c] = "checked"
    /\ writer \notin {0, c}
    /\ pc' = [pc EXCEPT ![c] = "idle"]
    /\ result' = [result EXCEPT ![c] = "database is locked"]
    /\ args' = [args EXCEPT ![c] = NoArgs]
    /\ team_id' = [team_id EXCEPT ![c] = 0]
    /\ UNCHANGED <<players, teams, auction_history, original_budget,
                   reg_result, writer, tx, current_player>>

process_bid(c) ==
    \/ \E p \in PlayerIds, n \in TeamNames, b \in Bids : CheckBudget(c, p, n, b)
    \/ UpdatePlayer(c)
    \/ UpdateTeam(c)
    \/ InsertHistory(c)
    \/ Commit(c)

Next ==
    \/ \E n \in TeamNames, b \in Budgets : add_team(n, b)
    \/ \E bp \in BasePrices : add_player(bp)
    \/ \E c \in Conns : process_bid(c)
    \/ \E c \in Conns : Busy(c)

Spec == Init /\ [][Next]_vars

\* One caller at a time: every call runs to completion on connection 1.
NextSeq ==
    \/ \E n \in TeamNames, b \in Budgets : add_team(n, b)
    \/ \E bp \in BasePrices : add_player(bp)
    \/ process_bid(1)

SpecSeq == Init /\ [][NextSeq]_vars

\* Callers that pass what the auction page passes (lines 416-428): the id of
\* a registered player and a bid of at least its base price; one at a time.
PricedBid(c) ==
    \E p \in DOMAIN players, n \in TeamNames, b \in Bids :
        /\ b >= players[p].base_price
        /\ CheckBudget(c, p, n, b)

NextSeqPriced ==
    \/ \E n \in TeamNames, b \in Budgets : add_team(n, b)
    \/ \E bp \in BasePrices : add_player(bp)
    \/ PricedBid(1)
    \/ UpdatePlayer(1)
    \/ UpdateTeam(1)
    \/ InsertHistory(1)
    \/ Commit(1)

SpecSeqPriced == Init /\ [][NextSeqPriced]_vars

\* Such callers on any number of connections at once, each bidding for a
\* player that is unsold when its call is made (lines 359-366).
BidOnUnsold(c) ==
    \E p \in DOMAIN players, n \in TeamNames, b \in Bids :
        /\ players[p].sold_to = NULL
        /\ b >= players[p].base_price
        /\ CheckBudget(c, p, n, b)

NextRace ==
    \/ \E n \in TeamNames, b \in Budgets : add_team(n, b)
    \/ \E bp \in BasePrices : add_player(bp)
    \/ \E c \in Conns : BidOnUnsold(c)
    \/ \E c \in Conns : UpdatePlayer(c)
    \/ \E c \in Conns : UpdateTeam(c)
    \/ \E c \in Conns : InsertHistory(c)
    \/ \E c \in Conns : Commit(c)
    \/ \E c \in Conns : Busy(c)

SpecRace == Init /\ [][NextRace]_vars

\* Every call in progress keeps running: the thread executing it is
\* scheduled, and its first UPDATE ends either with the write lock or, after
\* the busy timeout of sqlite3.connect (5 s by default, line 27), with
\* OperationalError.
CallsKeepRunning ==
    \A c \in Conns :
        /\ WF_vars(UpdatePlayer(c) \/ Busy(c))
        /\ WF_vars(UpdateTeam(c))
        /\ WF_vars(InsertHistory(c))
        /\ WF_vars(Commit(c))

SpecRaceFair == SpecRace /\ CallsKeepRunning

\* ---------------------------------------------------------- auction page
\* auction_page run with no candidate held (lines 357-376): the first visit
\* of a session, or the rerun that follows a successful bid.
SelectCandidate(s) ==
    /\ pc[s] = "idle"
    /\ current_player[s] = 0
    /\ \E p \in RandomPlayer(players) :
          current_player' = [current_player EXCEPT ![s] = p]
    /\ UNCHANGED <<players, teams, auction_history, original_budget,
                   reg_result, pc, args, team_id, result, writer, tx>>

\* Pass (lines 436-439), shown once a candidate is held and a team exists
\* (lines 374-382): current_player = None, and st.rerun() runs the page
\* again, which selects (lines 357-371).
Pass(s) ==
    /\ pc[s] = "idle"
    /\ current_player[s] # 0
    /\ teams # <<>>
    /\ \E p \in RandomPlayer(players) :
          current_player' = [current_player EXCEPT ![s] = p]
    /\ UNCHANGED <<players, teams, auction_history, original_budget,
                   reg_result, pc, args, team_id, result, writer, tx>>

\* Submit Bid (lines 410-428): the team is one of the rows just read (378,
\* 411), the bid lies between the held player's base price and that team's
\* budget (416-421), and process_bid is called with the held player's id.
SubmitBid(s) ==
    /\ current_player[s] # 0
    /\ \E i \in DOMAIN teams, b \in Bids :
          /\ b >= players[current_player[s]].base_price
          /\ b <= teams[i].budget
          /\ BudgetCheck(s, current_player[s], teams[i].name, b)

\* Variant of BidSuccessful that leaves the sold player in the session state.
BidSuccessfulKeepsCandidate(s) ==
    /\ CommitSale(s)
    /\ UNCHANGED current_player

\* lines 428-432: process_bid returned True; current_player = None.  The
\* rerun after time.sleep(1) is SelectCandidate.
BidSuccessful(s) ==
    /\ CommitSale(s)
    /\ current_player' = [current_player EXCEPT ![s] = 0]

NextPage ==
    \/ \E n \in TeamNames, b \in Budgets : add_team(n, b)
    \/ \E bp \in BasePrices : add_player(bp)
    \/ \E s \in Sessions : SelectCandidate(s)
    \/ \E s \in Sessions : Pass(s)
    \/ \E s \in Sessions : SubmitBid(s)
    \/ \E s \in Sessions : UpdatePlayer(s)
    \/ \E s \in Sessions : UpdateTeam(s)
    \/ \E s \in Sessions : InsertHistory(s)
    \/ \E s \in Sessions : BidSuccessful(s)
    \/ \E s \in Sessions : Busy(s)

SpecPage == Init /\ [][NextPage]_vars

\* The store driven through one browser session only.
NextOneSession ==
    \/ \E n \in TeamNames, b \in Budgets : add_team(n, b)
    \/ \E bp \in BasePrices : add_player(bp)
    \/ SelectCandidate(1)
    \/ Pass(1)
    \/ SubmitBid(1)
    \/ UpdatePlayer(1)
    \/ UpdateTeam(1)
    \/ InsertHistory(1)
    \/ BidSuccessful(1)

SpecOneSession == Init /\ [][NextOneSession]_vars

\* ------------------------------------------------------------- properties
\* the step in which connection c's process_bid commits and returns True
Commits(c) == pc[c] = "inserted" /\ pc'[c] = "idle" /\ result'[c] = "True"

\* the step in which connection c receives a process_bid call and makes its
\* budget check; args'[c] are the call's arguments
Called(c) ==
    /\ pc[c] = "idle"
    /\ <<pc[c], args[c], result[c]>>' # <<pc[c], args[c], result[c]>>

IsSold(p) == p \in DOMAIN players /\ players[p].sold_to # NULL

\* the unsold pool of the home, auction and roster pages (lines 180-181,
\* 359-366, 462): WHERE sold_to IS NULL AND sold_price IS NULL
InUnsoldPool(p) == p \in UnsoldPool(players)

\* the Current Roster view of team n (lines 460-472): WHERE sold_to = n
Roster(n) == {p \in DOMAIN players : players[p].sold_to = Some(n)}

HistoryOf(p) == {k \in DOMAIN auction_history :
                    auction_history[k].player_id = p}

\* C1: a process_bid call for a player whose sold_to is already set never
\* commits: it returns no success and changes no row, whatever the team and
\* the bid (callers one at a time).
AlreadySoldNeverCommits ==
    [][\A c \in Conns : Commits(c) => ~IsSold(args[c].player_id)]_vars

\* C2: a process_bid call whose bid exceeds the budget of the (existing) team
\* is rejected with "Insufficient budget" and leaves the team's budget, the
\* players and the history as they were.
InsufficientBudgetRejected ==
    [][\A c \in Conns :
          (/\ Called(c)
           /\ TeamRows(teams, args'[c].team_name) # {}
           /\ teams[TeamIdOf(teams, args'[c].team_name)].budget
                < args'[c].bid_amount)
          => (/\ pc'[c] = "idle"
              /\ result'[c] = "Insufficient budget"
              /\ UNCHANGED <<players, teams, auction_history>>)]_vars

InsufficientBudgetSeen ==
    \E c \in Conns :
        /\ pc[c] = "idle"
        /\ result[c] = "Insufficient budget"
        /\ TeamRows(teams, args[c].team_name) # {}
        /\ teams[TeamIdOf(teams, args[c].team_name)].budget < args[c].bid_amount
        /\ auction_history # <<>>

\* C3: with callers one at a time, every team's budget is >= 0 in every
\* reachable state.
BudgetNeverNegative ==
    \A i \in DOMAIN teams : teams[i].budget >= 0

BudgetSpentToZero ==
    \E i \in DOMAIN teams :
        /\ teams[i].budget = 0
        /\ original_budget[i] > 0
        /\ \E k \in DOMAIN auction_history :
              /\ auction_history[k].team_id = i
              /\ auction_history[k].bid_amount = original_budget[i]

\* C4: every player whose sold_price is set has sold_price >= base_price.
SoldPriceAtLeastBasePrice ==
    \A p \in DOMAIN players :
        players[p].sold_price # NULL
            => players[p].sold_price[1] >= players[p].base_price

\* C5: for every team, the budget it was created with minus the sum of
\* sold_price over the players whose sold_to is its name equals its budget.
Reconciliation ==
    \A i \in DOMAIN teams :
        original_budget[i] - SumSoldPrice(players, teams[i].name)
            = teams[i].budget

\* C6: of the process_bid calls made concurrently for the same unsold player
\* at most one commits, so no player has two auction_history rows.
OneWinnerPerPlayer ==
    \A p \in PlayerIds : Cardinality(HistoryOf(p)) <= 1

\* C7: a bid commits only while it still fits the team's budget: when a bid
\* for a still unsold player commits, the budget it is taken from is at least
\* the bid and is not negative afterwards, under any interleaving.
NoDoubleSpend ==
    [][\A c \in Conns :
          (Commits(c) /\ ~IsSold(args[c].player_id))
              => /\ teams[team_id[c]].budget >= args[c].bid_amount
                 /\ teams'[team_id[c]].budget >= 0]_vars

\* C8: the committed tables never show part of a sale: a step that changes
\* a registered player's sale fields, a team's budget or the history is the
\* commit of one process_bid and shows all of its three writes together.
AllOrNothing ==
    [][(\/ \E p \in DOMAIN players : players'[p] # players[p]
        \/ \E i \in DOMAIN teams : teams'[i] # teams[i]
        \/ auction_history' # auction_history)
       => \E c \in Conns :
            /\ Commits(c)
            /\ players' = SetSold(players, args[c].player_id,
                                  args[c].team_name, args[c].bid_amount)
            /\ teams' = DecrementBudget(teams, team_id[c], args[c].bid_amount)
            /\ Len(auction_history') = Len(auction_history) + 1]_vars

SaleInProgressUnseen ==
    /\ writer # 0
    /\ pc[writer] = "updated_team"
    /\ IsSold(args[writer].player_id) = FALSE
    /\ tx.players # players
    /\ tx.teams # teams
    /\ tx.auction_history = auction_history

\* C9: once a player's sold_to and sold_price are set, no step changes them.
SoldIsTerminal ==
    [][\A p \in DOMAIN players :
          players[p].sold_to # NULL
              => /\ players'[p].sold_to = players[p].sold_to
                 /\ players'[p].sold_price = players[p].sold_price]_vars

\* C10: a process_bid(player, team, bid) that returns True takes exactly bid
\* from exactly that team's budget, sets that player's sold_to to the team
\* and sold_price to bid, appends exactly the row (player, team, bid), and
\* leaves every other team and every other player as they were.
SaleEffect ==
    [][\A c \in Conns :
          Commits(c) =>
            LET a == args[c]
                t == team_id[c]
            IN /\ teams[t].name = a.team_name
               /\ teams'[t].budget = teams[t].budget - a.bid_amount
               /\ \A i \in DOMAIN teams : i # t => teams'[i] = teams[i]
               /\ DOMAIN teams' = DOMAIN teams
               /\ auction_history' =
                     auction_history \o <<[player_id |-> a.player_id,
                                           team_id |-> t,
                                           bid_amount |-> a.bid_amount]>>
               /\ DOMAIN players' = DOMAIN players
               /\ \A p \in DOMAIN players :
                     IF p = a.player_id
                     THEN /\ players'[p].sold_to = Some(a.team_name)
                          /\ players'[p].sold_price = Some(a.bid_amount)
                          /\ players'[p].base_price = players[p].base_price
                     ELSE players'[p] = players[p]]_vars

SaleCommitted ==
    \E c \in Conns :
        /\ pc[c] = "idle"
        /\ result[c] = "True"
        /\ Len(teams) = 2
        /\ Len(players) = 2
        /\ Len(auction_history) = 1
        /\ IsSold(auction_history[1].player_id)
        /\ teams[auction_history[1].team_id].budget
             = original_budget[auction_history[1].team_id]
                 - auction_history[1].bid_amount
        /\ auction_history[1].bid_amount > 0

\* SELECT SUM(bid_amount) FROM auction_history WHERE team_id = tid
RECURSIVE SumBidAmount(_, _)
SumBidAmount(h, tid) ==
    IF h = <<>> THEN 0
    ELSE LET r == h[Len(h)]
             rest == SumBidAmount(SubSeq(h, 1, Len(h) - 1), tid)
         IN IF r.team_id = tid THEN rest + r.bid_amount ELSE rest

\* C11: for every team, its budget equals the budget it was created with
\* minus the sum of bid_amount over its auction_history rows, and that sum
\* equals the sum of sold_price over the players whose sold_to is the team.
HistoryReconciles ==
    \A i \in DOMAIN teams :
        /\ teams[i].budget
             = original_budget[i] - SumBidAmount(auction_history, i)
        /\ SumBidAmount(auction_history, i)
             = SumSoldPrice(players, teams[i].name)

\* C12: every player's sold_to and sold_price are both null or both set, so
\* every player is either counted as sold (sold_to set) or in the unsold
\* pool (both null), and never both.
SaleFieldsTogether ==
    \A p \in DOMAIN players :
        /\ (players[p].sold_to = NULL) <=> (players[p].sold_price = NULL)
        /\ IsSold(p) # InUnsoldPool(p)

SoldAndUnsoldPlayers ==
    \E p, q \in DOMAIN players :
        /\ IsSold(p)
        /\ players[p].sold_price # NULL
        /\ InUnsoldPool(q)

\* C13: a process_bid call naming a team that has no row fails with a
\* failure of its own, not the one of an existing team that cannot afford
\* the bid, and leaves players, teams and history as they were.
UnknownTeamDistinct ==
    [][\A c \in Conns :
          (/\ Called(c)
           /\ TeamRows(teams, args'[c].team_name) = {})
          => (/\ pc'[c] = "idle"
              /\ result'[c] \notin {"True", "none", "Insufficient budget"}
              /\ UNCHANGED <<players, teams, auction_history>>)]_vars

\* C14: every auction_history row references an existing player id and an
\* existing team id; a process_bid call whose player_id matches no player
\* takes nothing from any budget and appends no row.
HistoryReferencesExist ==
    \A k \in DOMAIN auction_history :
        /\ auction_history[k].player_id \in DOMAIN players
        /\ auction_history[k].team_id \in DOMAIN teams

\* C15: auction_history is append-only and chronological: no step edits or
\* deletes a row, and a sale's row comes after the rows of all sales
\* committed before it (the history before a step is a prefix of the
\* history after it).
HistoryAppendOnly ==
    [][/\ Len(auction_history') >= Len(auction_history)
       /\ SubSeq(auction_history', 1, Len(auction_history))
            = auction_history]_vars

\* a second sale, different from the first, has been committed
TwoSalesInOrder ==
    /\ Len(auction_history) = 2
    /\ auction_history[1] # auction_history[2]
    /\ \A c \in Conns : pc[c] = "idle"

\* C16: the selection of the next auction candidate never yields a player
\* whose sold_to is set, and with an empty unsold pool it yields no
\* candidate, again and again while no player is sold or registered.
CandidateIsUnsold ==
    [][\A s \in Sessions :
          /\ (current_player'[s] # current_player[s] /\ current_player'[s] # 0)
                => (/\ current_player'[s] \in DOMAIN players
                    /\ ~IsSold(current_player'[s]))
          /\ (UnsoldPool(players) = {} /\ players' = players)
                => current_player'[s] \in {0, current_player[s]}
          /\ (UnsoldPool(players) = {} /\ players' = players
                /\ current_player[s] = 0)
                => current_player'[s] = 0]_vars

\* a session holds an unsold candidate it drew while the other registered
\* player was already sold
CandidateDrawnAfterSale ==
    \E s \in Sessions :
        /\ \A t \in Sessions : t # s => current_player[t] = 0
        /\ \A c \in Conns : pc[c] = "idle"
        /\ result[s] = "True"
        /\ current_player[s] # 0
        /\ InUnsoldPool(current_player[s])
        /\ \E q \in DOMAIN players : IsSold(q)

\* C17: no two teams have the same name: add_team with the name of an
\* existing team fails with "Team name already exists" and leaves that
\* team's budget and the rest of the ledger as they were, and a team row is
\* only ever added under a name no team has.
TeamNamesUnique ==
    /\ [](\A i, j \in DOMAIN teams : teams[i].name = teams[j].name => i = j)
    /\ [][/\ (reg_result' = "Team name already exists"
                /\ reg_result # reg_result')
             => UNCHANGED <<players, teams, auction_history,
                            original_budget>>
          /\ Len(teams') # Len(teams)
             => /\ teams' = Append(teams, teams'[Len(teams')])
                /\ TeamRows(teams, teams'[Len(teams')].name) = {}
                /\ reg_result' = "True"]_vars

\* a second add_team under the name of a team that has already spent from
\* its budget has been refused
DuplicateNameRefused ==
    /\ reg_result = "Team name already exists"
    /\ \E i \in DOMAIN teams : teams[i].budget < original_budget[i]

\* C18: a bid equal to the team's remaining budget is valid: process_bid
\* for an unsold player with bid_amount = the team's budget and
\* bid_amount >= base_price passes the budget check, and its commit sells
\* the player to the team and leaves the team's budget at exactly zero
\* (callers one at a time).
BidOfWholeBudget ==
    [][\A c \in Conns :
          /\ (/\ Called(c)
              /\ TeamRows(teams, args'[c].team_name) # {}
              /\ InUnsoldPool(args'[c].player_id)
              /\ args'[c].bid_amount
                   = teams[TeamIdOf(teams, args'[c].team_name)].budget
              /\ args'[c].bid_amount
                   >= players[args'[c].player_id].base_price)
             => (/\ pc'[c] = "checked"
                 /\ result'[c] # "Insufficient budget")
          /\ (/\ Commits(c)
              /\ InUnsoldPool(args[c].player_id)
              /\ args[c].bid_amount = teams[team_id[c]].budget
              /\ args[c].bid_amount >= players[args[c].player_id].base_price)
             => (/\ teams'[team_id[c]].budget = 0
                 /\ players'[args[c].player_id].sold_to
                      = Some(args[c].team_name)
                 /\ players'[args[c].player_id].sold_price
                      = Some(args[c].bid_amount))]_vars

\* a team has bought a player for the whole of its budget
WholeBudgetBid ==
    \E i \in DOMAIN teams, p \in DOMAIN players :
        /\ original_budget[i] > 0
        /\ teams[i].budget = 0
        /\ players[p].sold_to = Some(teams[i].name)
        /\ players[p].sold_price = Some(original_budget[i])
        /\ original_budget[i] >= players[p].base_price
        /\ Len(auction_history) = 1
        /\ result[1] = "True"

\* C19: a team's budget only ever decreases: no step makes the budget of a
\* team larger than it was, whatever bid amount process_bid accepts.
BudgetNeverGrows ==
    [][\A i \in DOMAIN teams : teams'[i].budget <= teams[i].budget]_vars

\* C20: for every team, the sum of sold_price over the players whose sold_to
\* is the team does not exceed the budget the team was created with.
SpendingWithinOriginalBudget ==
    \A i \in DOMAIN teams :
        SumSoldPrice(players, teams[i].name) <= original_budget[i]

\* C21: the candidate held for bidding is re-evaluated, not cached: the
\* player a Submit Bid of the auction page passes to process_bid is never a
\* player that has been sold, by this session or by another one.
SubmitBidNeverForSold ==
    [][\A s \in Sessions :
          Called(s) => ~IsSold(args'[s].player_id)]_vars

OneSessionSellsOnce ==
    /\ [](/\ current_player[1] # 0 => InUnsoldPool(current_player[1])
          /\ \A p \in PlayerIds : Cardinality(HistoryOf(p)) <= 1
          /\ Len(auction_history) <= Len(players))
    /\ [][/\ Called(1) => /\ args'[1].player_id = current_player[1]
                          /\ InUnsoldPool(args'[1].player_id)
          /\ (Called(1) /\ pc'[1] = "idle")
                => current_player'[1] = current_player[1]
          /\ Commits(1) => current_player'[1] = 0
          /\ (current_player'[1] # current_player[1]
                /\ current_player'[1] # 0)
                => current_player'[1] \in UnsoldPool(players')]_vars

\* the session has sold both registered players, one after the other
BothPlayersSold ==
    /\ Len(players) = 2
    /\ \A p \in DOMAIN players : IsSold(p) /\ Cardinality(HistoryOf(p)) = 1
    /\ current_player[1] = 0
    /\ pc[1] = "idle"
    /\ result[1] = "True"

\* C24: the history agrees with the players: every player has at most one
\* auction_history row and has one exactly if it is sold, and that row's
\* bid_amount is the player's sold_price and its team_id is the id of the
\* team named by the player's sold_to.
AuditTrailAgrees ==
    \A p \in DOMAIN players :
        /\ Cardinality(HistoryOf(p)) <= 1
        /\ IsSold(p) <=> Cardinality(HistoryOf(p)) = 1
        /\ \A k \in HistoryOf(p) :
              /\ players[p].sold_price = Some(auction_history[k].bid_amount)
              /\ players[p].sold_to
                   = Some(teams[auction_history[k].team_id].name)

\* C25: every sold player's sold_to is the name of exactly one existing
\* team, so every sold player is on the roster of exactly one team.
SoldToOneTeam ==
    \A p \in DOMAIN players :
        IsSold(p) =>
            /\ Cardinality(TeamRows(teams, players[p].sold_to[1])) = 1
            /\ Cardinality({i \in DOMAIN teams :
                               p \in Roster(teams[i].name)}) = 1

\* with two teams registered, one player is on each team's roster
RosterOfEachTeam ==
    /\ Len(teams) = 2
    /\ \A i \in DOMAIN teams : Roster(teams[i].name) # {}
    /\ \A c \in Conns : pc[c] = "idle"

====
